---- MODULE Spec2Model ----
(***************************************************************************)
(* Model of sync.Mutex (src/src/sync/mutex.go): the Lock/Unlock state      *)
(* machine over one state word and one semaphore counter.  Every atomic    *)
(* memory operation of the code (CAS, atomic add, load of m.state,         *)
(* semaphore acquire/release) is one step of one execution unit.  The      *)
(* plain loads of m.state (lines 59 and 134) are aligned 32-bit loads: each *)
(* returns the value the word has at one instant, so it is a step that     *)
(* reads the current state.  The waiter count stays within the number of   *)
(* units, far from the ends of int32, so no step wraps around.             *)
(***************************************************************************)
EXTENDS Integers, FiniteSets, Sequences, TLC

(* ---------------- bounds of the model ---------------- *)
NUnits == 3
MaxSpin == 1
MaxCalls == 4

Units == 1..NUnits

(* ---------------- constants of mutex.go ---------------- *)
mutexLocked == 1
mutexWoken == 2
mutexWaiterShift == 2

UnlockedMsg == "sync: unlock of unlocked mutex"
InconsistentMsg == "sync: inconsistent mutex state"

(* ---------------- int32 bit operations (two's complement) -------------- *)
\* x & b # 0 for a single-bit mask b; \div is floor division and % is
\* non-negative, which is two's complement for negative x as well.
HasBit(x, b) == (x \div b) % 2 = 1
\* x | b for a single-bit mask b
BitOr(x, b) == IF HasBit(x, b) THEN x ELSE x + b
\* x &^ b for a single-bit mask b
BitClear(x, b) == IF HasBit(x, b) THEN x - b ELSE x
\* x >> mutexWaiterShift (arithmetic shift)
Waiters(x) == x \div (2 ^ mutexWaiterShift)
\* one waiter in the state word: 1 << mutexWaiterShift
OneWaiter == 2 ^ mutexWaiterShift

Locked(x) == HasBit(x, mutexLocked)
Woken(x) == HasBit(x, mutexWoken)

VARIABLES
    state,    \* m.state
    sema,     \* m.sema, the semaphore's credit count
    pc,       \* per unit: position in Lock / Unlock
    old,      \* per unit: the local `old`
    awoke,    \* per unit: the local `awoke` of Lock
    iter,     \* per unit: the local `iter` of Lock
    holds,    \* per unit: Lock has returned and no Unlock was done for it
    err,      \* per unit: panic message of its most recent call, or "none"
    budget,   \* Lock calls the client program still makes (finite workloads)
    touched,  \* units that have called Lock or Unlock so far
    ahead,    \* per unit: the units that were parked when it called Lock and
              \* have not acquired since
    proxy,    \* per unit: it is inside an Unlock made for another unit's Lock
    credit,   \* who issued the pending semaphore credit: "none", "self", "proxy"
    wake      \* per unit: who released its last Semacquire of this Lock call

vars == <<state, sema, pc, old, awoke, iter, holds, err, budget, touched,
          ahead, proxy, credit, wake>>

Init ==
    /\ state = 0
    /\ sema = 0
    /\ pc = [u \in Units |-> "idle"]
    /\ old = [u \in Units |-> 0]
    /\ awoke = [u \in Units |-> FALSE]
    /\ iter = [u \in Units |-> 0]
    /\ holds = [u \in Units |-> FALSE]
    /\ err = [u \in Units |-> "none"]
    /\ budget = MaxCalls
    /\ touched = {}
    /\ ahead = [u \in Units |-> {}]
    /\ proxy = [u \in Units |-> FALSE]
    /\ credit = "none"
    /\ wake = [u \in Units |-> "none"]

(* ---------------- pure pieces of Lock ---------------- *)
\* line 47: the value the fast path expects in m.state
FastExpected == 0

\* lines 60, 74, with the bug of a waiter weighing 2<<mutexWaiterShift
LockCandidateTwoWaiters(o) ==
    IF Locked(o) THEN o + 2 * OneWaiter ELSE BitOr(o, mutexLocked)

\* lines 60, 74: candidate new before the awoke correction
LockCandidate(o) ==
    IF Locked(o) THEN o + OneWaiter ELSE BitOr(o, mutexLocked)

\* lines 79: the fatal check, taken only when awoke
Inconsistent(o, aw) == aw /\ ~Woken(LockCandidate(o))

\* lines 60-84, with the bug of a missing new &^= mutexWoken
LockNewKeepWoken(o, aw) == LockCandidate(o)

\* lines 60-84: the value Lock's main CAS installs
LockNew(o, aw) ==
    IF aw THEN BitClear(LockCandidate(o), mutexWoken) ELSE LockCandidate(o)

\* line 86, with the bug of testing new instead of old
LockWonByNew(o) == Locked(LockCandidate(o))

\* line 86: the CAS that succeeded took the mutex
LockWon(o) == ~Locked(o)

\* line 66, with the bug of a missing test of the waiter count
SpinWantsWokenNoWaiters(o, aw) == ~aw /\ ~Woken(o)

\* line 66: the non-CAS conjuncts of the spinner's condition
SpinWantsWoken(o, aw) == ~aw /\ ~Woken(o) /\ Waiters(o) # 0

\* line 62: runtime_canSpin(iter); the advisor may say no at any time and
\* says no once iter reaches the spin limit
CanSpinAnswers(i) == IF i < MaxSpin THEN {TRUE, FALSE} ELSE {FALSE}

(* ---------------- pure pieces of Unlock ---------------- *)
\* line 116, with the bug of testing new itself
UnlockFatalNoAdd(new) == ~Locked(new)

\* line 116: (new+mutexLocked)&mutexLocked == 0
UnlockFatal(new) == ~Locked(new + mutexLocked)

\* line 124, with the bug of an inverted test of the two low bits
UnlockReturnsInverted(o) == Waiters(o) = 0 \/ ~(Locked(o) \/ Woken(o))

\* line 124, with the bug of a missing test of the waiter count
UnlockReturnsNoWaiterTest(o) == Locked(o) \/ Woken(o)

\* line 124, with the bug of a missing test of the woken bit
UnlockReturnsNoWokenTest(o) == Waiters(o) = 0 \/ Locked(o)

\* line 124: no need to wake anyone
UnlockReturns(o) == Waiters(o) = 0 \/ Locked(o) \/ Woken(o)

\* line 128, with the bug of not taking the waiter off the count
UnlockNewKeepWaiter(o) == BitOr(o, mutexWoken)

\* line 128, with the bug of not setting mutexWoken
UnlockNewNoWoken(o) == o - OneWaiter

\* line 128
UnlockNew(o) == BitOr(o - OneWaiter, mutexWoken)

(* ---------------- Lock ---------------- *)
Parked == {w \in Units : pc[w] = "L_sema"}

\* the bookkeeping of a unit u that has just acquired: nobody has u ahead
Acquired(u, mine) == [x \in Units |-> IF x = u THEN mine ELSE ahead[x] \ {u}]

\* lines 43-57: the call and the fast-path CAS
LockFast(u) ==
    /\ pc[u] = "idle"
    /\ touched' = touched \cup {u}
    /\ err' = [err EXCEPT ![u] = "none"]
    /\ wake' = [wake EXCEPT ![u] = "none"]
    /\ IF state = FastExpected
       THEN /\ state' = mutexLocked
            /\ holds' = [holds EXCEPT ![u] = TRUE]
            /\ ahead' = Acquired(u, Parked)
            /\ pc' = pc
       ELSE /\ pc' = [pc EXCEPT ![u] = "L_read"]
            /\ ahead' = [ahead EXCEPT ![u] = Parked]
            /\ UNCHANGED <<state, holds>>
    /\ UNCHANGED <<sema, old, awoke, iter, proxy, credit>>

\* lines 59-84: load m.state, then decide locally: spin, panic or go to
\* the main CAS
LockRead(u) ==
    /\ pc[u] = "L_read"
    /\ LET o == state IN
       /\ \E spin \in (IF Locked(o) THEN CanSpinAnswers(iter[u]) ELSE {FALSE}) :
            IF spin
            THEN IF SpinWantsWoken(o, awoke[u])
                 THEN /\ pc' = [pc EXCEPT ![u] = "L_spinCAS"]
                      /\ old' = [old EXCEPT ![u] = o]
                      /\ UNCHANGED <<iter, err, awoke>>
                 ELSE \* runtime_doSpin(); iter++; continue
                      /\ iter' = [iter EXCEPT ![u] = @ + 1]
                      /\ old' = [old EXCEPT ![u] = o]
                      /\ UNCHANGED <<pc, err, awoke>>
            ELSE IF Inconsistent(o, awoke[u])
                 THEN \* panic: the call ends
                      /\ err' = [err EXCEPT ![u] = InconsistentMsg]
                      /\ pc' = [pc EXCEPT ![u] = "idle"]
                      /\ awoke' = [awoke EXCEPT ![u] = FALSE]
                      /\ iter' = [iter EXCEPT ![u] = 0]
                      /\ old' = [old EXCEPT ![u] = 0]
                 ELSE /\ pc' = [pc EXCEPT ![u] = "L_cas"]
                      /\ old' = [old EXCEPT ![u] = o]
                      /\ UNCHANGED <<iter, err, awoke>>
    /\ UNCHANGED <<state, sema, holds, budget, touched, ahead, proxy, credit, wake>>

\* lines 67-72: the spinner's CAS old -> old|mutexWoken, doSpin, iter++
LockSpinCAS(u) ==
    /\ pc[u] = "L_spinCAS"
    /\ IF state = old[u]
       THEN /\ state' = BitOr(old[u], mutexWoken)
            /\ awoke' = [awoke EXCEPT ![u] = TRUE]
       ELSE UNCHANGED <<state, awoke>>
    /\ iter' = [iter EXCEPT ![u] = @ + 1]
    /\ pc' = [pc EXCEPT ![u] = "L_read"]
    /\ UNCHANGED <<sema, old, holds, err, budget, touched, ahead, proxy, credit, wake>>

\* lines 85-88: the main CAS old -> new
LockCAS(u) ==
    /\ pc[u] = "L_cas"
    /\ IF state = old[u]
       THEN /\ state' = LockNew(old[u], awoke[u])
            /\ IF LockWon(old[u])
               THEN \* break: Lock returns holding the mutex
                    /\ pc' = [pc EXCEPT ![u] = "idle"]
                    /\ holds' = [holds EXCEPT ![u] = TRUE]
                    /\ awoke' = [awoke EXCEPT ![u] = FALSE]
                    /\ iter' = [iter EXCEPT ![u] = 0]
                    /\ old' = [old EXCEPT ![u] = 0]
                    /\ ahead' = Acquired(u, ahead[u])
               ELSE /\ pc' = [pc EXCEPT ![u] = "L_sema"]
                    /\ UNCHANGED <<holds, awoke, iter, old, ahead>>
       ELSE /\ pc' = [pc EXCEPT ![u] = "L_read"]
            /\ UNCHANGED <<state, holds, awoke, iter, old, ahead>>
    /\ UNCHANGED <<sema, err, budget, touched, proxy, credit, wake>>

\* lines 91-93: runtime_Semacquire returns once it has taken a credit
LockSema(u) ==
    /\ pc[u] = "L_sema"
    /\ sema > 0
    /\ sema' = sema - 1
    /\ awoke' = [awoke EXCEPT ![u] = TRUE]
    /\ iter' = [iter EXCEPT ![u] = 0]
    /\ pc' = [pc EXCEPT ![u] = "L_read"]
    /\ wake' = [wake EXCEPT ![u] = credit]
    /\ credit' = IF sema = 1 THEN "none" ELSE credit
    /\ UNCHANGED <<state, old, holds, err, budget, touched, ahead, proxy>>

(* ---------------- Unlock ---------------- *)
\* lines 108-126: the call, the atomic subtraction, the fatal check and the
\* first pass of the loop test on old = new.  h is the unit whose hold this
\* call ends (the caller itself, or the unit it unlocks for).
UnlockSub(c, h) ==
    /\ pc[c] = "idle"
    /\ touched' = touched \cup {c}
    /\ holds' = [holds EXCEPT ![h] = FALSE]
    /\ ahead' = [ahead EXCEPT ![h] = {}]
    /\ wake' = [wake EXCEPT ![h] = "none"]
    /\ LET new == state - mutexLocked IN
       /\ state' = new
       /\ IF UnlockFatal(new)
          THEN \* panic: the call ends
               /\ err' = [err EXCEPT ![c] = UnlockedMsg]
               /\ UNCHANGED <<pc, old, proxy>>
          ELSE /\ err' = [err EXCEPT ![c] = "none"]
               /\ IF UnlockReturns(new)
                  THEN UNCHANGED <<pc, old, proxy>>
                  ELSE /\ pc' = [pc EXCEPT ![c] = "U_cas"]
                       /\ old' = [old EXCEPT ![c] = new]
                       /\ proxy' = [proxy EXCEPT ![c] = (c # h)]
    /\ UNCHANGED <<sema, awoke, iter, credit>>

\* line 129: CAS old -> (old - 1<<mutexWaiterShift) | mutexWoken
UnlockCAS(c) ==
    /\ pc[c] = "U_cas"
    /\ IF state = old[c]
       THEN /\ state' = UnlockNew(old[c])
            /\ pc' = [pc EXCEPT ![c] = "U_rel"]
       ELSE /\ pc' = [pc EXCEPT ![c] = "U_reread"]
            /\ UNCHANGED state
    /\ UNCHANGED <<sema, old, awoke, iter, holds, err, budget, touched,
                   ahead, proxy, credit, wake>>

\* lines 134, 124: old = m.state and the loop test
UnlockReread(c) ==
    /\ pc[c] = "U_reread"
    /\ IF UnlockReturns(state)
       THEN /\ pc' = [pc EXCEPT ![c] = "idle"]
            /\ old' = [old EXCEPT ![c] = 0]
            /\ proxy' = [proxy EXCEPT ![c] = FALSE]
       ELSE /\ pc' = [pc EXCEPT ![c] = "U_cas"]
            /\ old' = [old EXCEPT ![c] = state]
            /\ UNCHANGED proxy
    /\ UNCHANGED <<state, sema, awoke, iter, holds, err, budget, touched,
                   ahead, credit, wake>>

\* lines 131-132: runtime_Semrelease and return
UnlockRelease(c) ==
    /\ pc[c] = "U_rel"
    /\ sema' = sema + 1
    /\ pc' = [pc EXCEPT ![c] = "idle"]
    /\ old' = [old EXCEPT ![c] = 0]
    /\ credit' = IF proxy[c] THEN "proxy" ELSE "self"
    /\ proxy' = [proxy EXCEPT ![c] = FALSE]
    /\ UNCHANGED <<state, awoke, iter, holds, err, budget, touched, ahead, wake>>

(* ---------------- clients: correct use ---------------- *)
\* A unit that does not hold the mutex calls Lock.
CorrectLock(u) ==
    /\ ~holds[u]
    /\ LockFast(u)
    /\ UNCHANGED budget

\* The holder h calls Unlock, or c calls it on h's behalf.
CorrectUnlock(c, h) ==
    /\ holds[h]
    /\ UnlockSub(c, h)
    /\ UNCHANGED budget

Next ==
    \E u \in Units :
        \/ CorrectLock(u)
        \/ LockRead(u)
        \/ LockSpinCAS(u)
        \/ LockCAS(u)
        \/ LockSema(u)
        \/ \E h \in Units : CorrectUnlock(u, h)
        \/ UnlockCAS(u)
        \/ UnlockReread(u)
        \/ UnlockRelease(u)

Spec == Init /\ [][Next]_vars

(* ---------------- clients: a finite workload, fairly scheduled ---------- *)
\* As CorrectLock, but the clients make MaxCalls calls of Lock in all.
BudgetLock(u) ==
    /\ budget > 0
    /\ ~holds[u]
    /\ LockFast(u)
    /\ budget' = budget - 1

NextFair ==
    \E u \in Units :
        \/ BudgetLock(u)
        \/ LockRead(u)
        \/ LockSpinCAS(u)
        \/ LockCAS(u)
        \/ LockSema(u)
        \/ \E h \in Units : CorrectUnlock(u, h)
        \/ UnlockCAS(u)
        \/ UnlockReread(u)
        \/ UnlockRelease(u)

\* What the scheduler owes unit u: every step inside a call, and the
\* holder's own Unlock.
Progress(u) ==
    \/ LockRead(u)
    \/ LockSpinCAS(u)
    \/ LockCAS(u)
    \/ LockSema(u)
    \/ CorrectUnlock(u, u)
    \/ UnlockCAS(u)
    \/ UnlockReread(u)
    \/ UnlockRelease(u)

FairSpec == Init /\ [][NextFair]_vars /\ \A u \in Units : WF_vars(Progress(u))

(* ---------------- C1 ---------------- *)
Holders == {u \in Units : holds[u]}

\* C1: mutual exclusion: at most one unit is between the return of its Lock
\* and the atomic subtraction of the Unlock made for it; and the locked bit
\* is set exactly while some unit is.
MutualExclusion ==
    /\ Cardinality(Holders) <= 1
    /\ Locked(state) <=> Holders # {}

\* a unit holds the mutex while another has parked and a third is racing
MutualExclusionWitness ==
    \E u, v, w \in Units :
        /\ holds[u]
        /\ pc[v] = "L_sema"
        /\ pc[w] = "L_cas"

AnyLock(u) ==
    /\ budget > 0
    /\ ~holds[u]
    /\ LockFast(u)
    /\ budget' = budget - 1

\* Any idle unit calls Unlock, held or not.  It ends the hold of the holder
\* if there is one.
AnyUnlock(c) ==
    /\ budget > 0
    /\ budget' = budget - 1
    /\ \E h \in Units :
        /\ IF Holders # {} THEN h \in Holders ELSE h = c
        /\ UnlockSub(c, h)

NextMisuse ==
    \E u \in Units :
        \/ AnyLock(u)
        \/ LockRead(u)
        \/ LockSpinCAS(u)
        \/ LockCAS(u)
        \/ LockSema(u)
        \/ AnyUnlock(u)
        \/ UnlockCAS(u)
        \/ UnlockReread(u)
        \/ UnlockRelease(u)

SpecMisuse == Init /\ [][NextMisuse]_vars

(* ---------------- C3 ---------------- *)
\* C3: fatal on misuse.  An Unlock call panics with "unlock of unlocked
\* mutex" exactly when the locked bit is 0 at its atomic subtraction,
\* whatever the woken bit and the waiter count are; an Unlock that does not
\* panic leaves the locked bit 0, so that an Unlock following it with no
\* Lock acquiring in between panics.
FatalOnMisuse ==
    [][\A c \in Units :
        (\E h \in Units : UnlockSub(c, h)) =>
            /\ (err'[c] = UnlockedMsg) <=> ~Locked(state)
            /\ (err'[c] # UnlockedMsg) => ~Locked(state')
            /\ state' = state - mutexLocked]_vars

\* an Unlock has panicked on a mutex that carries the woken bit
FatalOnMisuseWitness ==
    \E c \in Units :
        /\ err[c] = UnlockedMsg
        /\ pc[c] = "idle"
        /\ Woken(state + mutexLocked)
        /\ Parked # {}

(* ---------------- C4 ---------------- *)
\* C4: uncontended fast path.  As long as a single unit u is the only one
\* that has called Lock or Unlock, u is never inside a call after a step
\* (every Lock acquires by its first CAS and every Unlock returns after its
\* subtraction), never spins, the semaphore is never released or acquired,
\* and state is 1 while u holds and 0 after every Unlock, with sema = 0.
UncontendedFastPath ==
    \A u \in Units :
        touched \subseteq {u} =>
            /\ pc[u] = "idle"
            /\ iter[u] = 0 /\ ~awoke[u]
            /\ wake[u] = "none" /\ credit = "none"
            /\ sema = 0
            /\ state = (IF holds[u] THEN mutexLocked ELSE 0)

\* the only unit so far holds the mutex for at least the second time
UncontendedFastPathWitness ==
    \E u \in Units :
        /\ touched = {u}
        /\ holds[u]
        /\ budget <= MaxCalls - 2

(* ---------------- clients: re-entrant use ---------------- *)
\* Any idle unit calls Lock, also one that holds the mutex.
ReentrantLock(u) ==
    /\ LockFast(u)
    /\ UNCHANGED budget

\* Only a holder that is not inside a call unlocks, and only for itself.
SelfUnlock(u) == CorrectUnlock(u, u)

NextReentrant ==
    \E u \in Units :
        \/ ReentrantLock(u)
        \/ LockRead(u)
        \/ LockSpinCAS(u)
        \/ LockCAS(u)
        \/ LockSema(u)
        \/ SelfUnlock(u)
        \/ UnlockCAS(u)
        \/ UnlockReread(u)
        \/ UnlockRelease(u)

\* What the scheduler owes unit u: every step inside a call.
InsideStep(u) ==
    \/ LockRead(u)
    \/ LockSpinCAS(u)
    \/ LockCAS(u)
    \/ LockSema(u)
    \/ UnlockCAS(u)
    \/ UnlockReread(u)
    \/ UnlockRelease(u)

SpecReentrant ==
    Init /\ [][NextReentrant]_vars /\ \A u \in Units : WF_vars(InsideStep(u))

(* ---------------- C5 ---------------- *)
\* u called Lock while holding the mutex
Reentered(u) == holds[u] /\ pc[u] # "idle"

\* C5: re-entrancy hazard.  A unit that calls Lock while it holds the mutex
\* never returns from that call and keeps the mutex locked; it ends up
\* parked on the semaphore for ever; and when no other unit has touched the
\* mutex it parks with state = locked, one waiter, woken clear, and sema = 0.
ReentrantDeadlock ==
    /\ [][\A u \in Units :
            Reentered(u) => (Reentered(u)' /\ Locked(state'))]_vars
    /\ \A u \in Units : [](Reentered(u) => <>[](pc[u] = "L_sema"))
    /\ [](\A u \in Units :
            (Reentered(u) /\ pc[u] = "L_sema" /\ touched = {u}) =>
                (state = mutexLocked + OneWaiter /\ sema = 0))

\* the only unit so far is parked in its second Lock
ReentrantDeadlockWitness ==
    \E u \in Units :
        /\ Reentered(u)
        /\ pc[u] = "L_sema"
        /\ touched = {u}

(* ---------------- C6 ---------------- *)
\* C6: no ownership identity.  When c calls Unlock while another unit h
\* holds the mutex, the call does not panic, subtracts the locked bit and
\* goes on as any Unlock does: it returns at once when nobody is to be
\* woken and otherwise claims the wake; a unit in Unlock for another's Lock
\* claims the wake by the same CAS and then releases the semaphore once
\* and returns.
ProxyUnlock ==
    [][\A c \in Units :
        /\ \A h \in Units :
            (c # h /\ CorrectUnlock(c, h)) =>
                /\ err'[c] = "none"
                /\ state' = state - mutexLocked
                /\ ~Locked(state')
                /\ ~holds'[h]
                /\ sema' = sema
                /\ pc'[c] = (IF Waiters(state') = 0 \/ Woken(state')
                             THEN "idle" ELSE "U_cas")
        /\ (proxy[c] /\ pc[c] = "U_cas" /\ pc'[c] # "U_cas") =>
                IF state = old[c]
                THEN /\ pc'[c] = "U_rel"
                     /\ state' = state - OneWaiter + mutexWoken
                ELSE pc'[c] = "U_reread" /\ state' = state
        /\ (proxy[c] /\ pc[c] = "U_rel" /\ pc'[c] # "U_rel") =>
                /\ sema' = sema + 1
                /\ pc'[c] = "idle"
                /\ state' = state]_vars

\* a unit that was parked holds the mutex, woken by the Unlock that another
\* unit made for the previous holder
ProxyUnlockWitness ==
    \E w \in Units :
        /\ holds[w]
        /\ wake[w] = "proxy"

(* ---------------- C7 ---------------- *)
\* a and b are the only units so far and each has called Lock once
TwoUnits(a, b) ==
    /\ a # b
    /\ touched = {a, b}
    /\ budget = MaxCalls - 2

\* C7: two-unit hand-off.  With A and B each calling Lock once: while B is
\* parked and A holds, state is locked with one waiter; A's Unlock takes
\* state to no waiter, woken set, unlocked and then releases one credit;
\* B wakes with awoke set, re-races on that state and acquires, and the end
\* is state = locked, no waiter, woken clear, sema = 0.
TwoUnitHandoff ==
    \A a, b \in Units :
        TwoUnits(a, b) =>
            /\ (holds[a] /\ pc[a] = "idle" /\ pc[b] = "L_sema") =>
                    (state = mutexLocked + OneWaiter /\ sema = 0)
            /\ (pc[a] = "U_cas") =>
                    (state = OneWaiter /\ old[a] = OneWaiter /\ sema = 0
                     /\ pc[b] = "L_sema")
            /\ (pc[a] = "U_rel") =>
                    (state = mutexWoken /\ sema = 0 /\ pc[b] = "L_sema")
            /\ pc[a] # "U_reread"
            /\ (~holds[a] /\ pc[a] = "idle" /\ pc[b] = "L_sema") =>
                    (state = mutexWoken /\ sema = 1)
            /\ (wake[b] # "none" /\ pc[b] \in {"L_read", "L_cas"}) =>
                    (awoke[b] /\ iter[b] = 0 /\ state = mutexWoken /\ sema = 0
                     /\ pc[a] = "idle" /\ ~holds[a])
            /\ (wake[b] # "none" => pc[b] \in {"idle", "L_read", "L_cas"})
            /\ (holds[b] /\ wake[b] # "none") =>
                    (state = mutexLocked /\ sema = 0
                     /\ pc[a] = "idle" /\ ~holds[a] /\ pc[b] = "idle")

\* B, parked and then woken by A's Unlock, holds the mutex
TwoUnitHandoffWitness ==
    \E a, b \in Units :
        /\ TwoUnits(a, b)
        /\ holds[b]
        /\ wake[b] = "self"

(* ---------------- C8 ---------------- *)
UnlockPcs == {"U_cas", "U_reread", "U_rel"}

\* C8: Unlock never blocks and wakes at most one waiter.  A unit inside
\* Unlock stays in Unlock's loop or returns and never acquires the
\* semaphore; the semaphore is released only by the last step of an Unlock,
\* one credit, after which the call has returned; that step is reached only
\* from the call's own successful CAS, which took exactly one waiter off
\* the count and set the woken bit; and a unit inside Unlock can always
\* take its next step.
UnlockWakesAtMostOne ==
    /\ [][/\ sema' > sema =>
                \E c \in Units :
                    /\ pc[c] = "U_rel" /\ pc'[c] = "idle"
                    /\ sema' = sema + 1
          /\ sema' < sema =>
                \E u \in Units : pc[u] = "L_sema" /\ pc'[u] = "L_read"
          /\ \A c \in Units :
                /\ pc[c] \in UnlockPcs => pc'[c] \in UnlockPcs \cup {"idle"}
                /\ (pc[c] = "U_rel" /\ pc'[c] # "U_rel") =>
                        (pc'[c] = "idle" /\ sema' = sema + 1)
                /\ (pc'[c] = "U_rel" /\ pc[c] # "U_rel") =>
                        /\ pc[c] = "U_cas"
                        /\ state = old[c]
                        /\ Waiters(state') = Waiters(state) - 1
                        /\ ~Woken(state) /\ Woken(state')
                        /\ ~Locked(state')]_vars
    /\ [](\A c \in Units :
            pc[c] \in UnlockPcs =>
                ENABLED (UnlockCAS(c) \/ UnlockReread(c) \/ UnlockRelease(c)))

\* an Unlock has claimed a wake and is about to release the semaphore while
\* two units are parked
UnlockWakesAtMostOneWitness ==
    \E c \in Units :
        /\ pc[c] = "U_rel"
        /\ Cardinality(Parked) = 2

(* ---------------- C9 ---------------- *)
LockPcs == {"L_read", "L_spinCAS", "L_cas", "L_sema"}

\* C9: no FIFO fairness.  Who acquires is decided by the CAS race alone: a
\* unit whose CAS finds m.state as it read it, unlocked, acquires whoever
\* was parked before it called Lock; a unit, woken or not, whose CAS finds
\* m.state changed does not acquire and reads again; and the units that were
\* parked when the holder called Lock and have not acquired are still
\* inside their Lock calls.  (The witness is the barging execution.)
Barging ==
    /\ [][\A u \in Units :
            (pc[u] = "L_cas" /\ pc'[u] # "L_cas") =>
                IF state = old[u]
                THEN IF Locked(old[u])
                     THEN pc'[u] = "L_sema" /\ ~holds'[u]
                     ELSE pc'[u] = "idle" /\ holds'[u]
                ELSE pc'[u] = "L_read" /\ ~holds'[u] /\ state' = state]_vars
    /\ [](\A u, w \in Units :
            (holds[u] /\ w \in ahead[u]) => (pc[w] \in LockPcs /\ ~holds[w]))

\* u called Lock when w was already parked; w has since been woken and has
\* read an unlocked m.state, but u holds the mutex and w's CAS will fail
BargingWitness ==
    \E u, w \in Units :
        /\ holds[u]
        /\ w \in ahead[u]
        /\ wake[w] # "none"
        /\ awoke[w]
        /\ pc[w] = "L_cas"
        /\ ~Locked(old[w])
        /\ state # old[w]

(* ---------------- C10 ---------------- *)
\* C10 as claimed: in every reachable state woken = 1 implies waiter
\* count > 0.
WokenImpliesWaiters == Woken(state) => Waiters(state) > 0

\* C10, amended: the woken bit is set only by a step taken from a state
\* whose waiter count is > 0; the bit can be set while the waiter count is 0,
\* as after the CAS of Unlock that takes the last waiter off the count.
WokenSetOnlyWithWaiters ==
    [][(~Woken(state) /\ Woken(state')) => Waiters(state) > 0]_vars

\* the woken bit is set and the waiter count is 0
WokenSetOnlyWithWaitersWitness ==
    /\ Woken(state)
    /\ Waiters(state) = 0
    /\ sema = 1

(* ---------------- C11 ---------------- *)
\* C11: the waiter count.  Under correct use the waiter count is never
\* negative.  The CAS of Lock that sends a unit to the semaphore adds
\* exactly one waiter, from a state with the locked bit set; the CAS of
\* Unlock that claims a wake takes exactly one waiter off and the call then
\* releases the semaphore once; no other step changes the count: not the
\* acquiring CAS of Lock, not the spinner's CAS, not Unlock's subtraction.
WaiterCount ==
    /\ [](Waiters(state) >= 0)
    /\ [][/\ \A u \in Units :
                /\ (pc[u] = "L_cas" /\ pc'[u] = "L_sema") =>
                        /\ Locked(state) /\ state = old[u]
                        /\ Waiters(state') = Waiters(state) + 1
                /\ (pc[u] = "U_cas" /\ pc'[u] = "U_rel") =>
                        Waiters(state') = Waiters(state) - 1
                /\ (pc[u] = "U_rel" /\ pc'[u] # "U_rel") =>
                        (sema' = sema + 1 /\ pc'[u] = "idle")
          /\ Waiters(state') # Waiters(state) =>
                \E u \in Units :
                    \/ pc[u] = "L_cas" /\ pc'[u] = "L_sema"
                    \/ pc[u] = "U_cas" /\ pc'[u] = "U_rel"]_vars

\* an Unlock has taken one of two waiters off the count
WaiterCountWitness ==
    \E c \in Units :
        /\ pc[c] = "U_rel"
        /\ Waiters(state) = 1
        /\ Cardinality(Parked) = 2

(* ---------------- C12 ---------------- *)
\* u owns a wake: it is awoke and has not yet done the CAS that uses it up
Racing(u) == awoke[u] /\ pc[u] \in {"L_read", "L_cas"}

\* C12: the inconsistency check never fails under correct use.  No Lock
\* call panics; whenever an awoke unit loads m.state or is about to do its
\* main CAS the woken bit is set in m.state (and in the old it holds), so
\* the candidate carries it at the check; and the value its successful CAS
\* installs has the woken bit clear.
NeverInconsistent ==
    /\ [](\A u \in Units :
            /\ err[u] # InconsistentMsg
            /\ Racing(u) => Woken(state)
            /\ (Racing(u) /\ pc[u] = "L_cas") =>
                    (Woken(old[u]) /\ Woken(LockCandidate(old[u]))))
    /\ [][\A u \in Units :
            (Racing(u) /\ pc[u] = "L_cas" /\ state = old[u]
                /\ pc'[u] # "L_cas") => ~Woken(state')]_vars

\* a unit woken from the semaphore found the mutex taken again and is about
\* to register as a waiter once more
NeverInconsistentWitness ==
    \E u \in Units :
        /\ Racing(u)
        /\ wake[u] # "none"
        /\ pc[u] = "L_cas"
        /\ Locked(old[u])
        /\ state = old[u]

(* ---------------- C13 ---------------- *)
\* u has set the woken bit by its spinner's CAS and still owns that wake
SpinnerHoldsWoken(u) == Racing(u) /\ wake[u] = "none"

\* C13: Unlock suppresses redundant wakeups.  Having dropped the locked
\* bit, Unlock returns with no release and no further change of m.state
\* whenever the state it examines (the result of its subtraction, or the
\* state it loads after a failed CAS) has waiter count 0, the woken bit set
\* or the locked bit set, and goes to its CAS otherwise; and while a
\* spinner owns the woken bit no Unlock is about to release the semaphore
\* and no credit is pending.
UnlockSuppressesWake ==
    /\ [][\A c \in Units :
            /\ (\E h \in Units : CorrectUnlock(c, h)) =>
                    /\ state' = state - mutexLocked
                    /\ sema' = sema
                    /\ pc'[c] = (IF Waiters(state') = 0 \/ Woken(state')
                                    \/ Locked(state')
                                 THEN "idle" ELSE "U_cas")
            /\ (pc[c] = "U_reread" /\ pc'[c] # "U_reread") =>
                    /\ state' = state
                    /\ sema' = sema
                    /\ pc'[c] = (IF Waiters(state) = 0 \/ Woken(state)
                                    \/ Locked(state)
                                 THEN "idle" ELSE "U_cas")]_vars
    /\ [](\A u \in Units :
            SpinnerHoldsWoken(u) =>
                (sema = 0 /\ \A c \in Units : pc[c] # "U_rel"))

\* a spinner owns the woken bit, the mutex has been unlocked, and the
\* parked unit has not been woken
UnlockSuppressesWakeWitness ==
    \E u, w \in Units :
        /\ SpinnerHoldsWoken(u)
        /\ pc[w] = "L_sema"
        /\ ~Locked(state)
        /\ \A c \in Units : pc[c] \notin UnlockPcs

SpinnerSetsWokenOnly ==
    /\ [](\A u \in Units :
            pc[u] = "L_spinCAS" =>
                /\ ~awoke[u]
                /\ Locked(old[u]) /\ ~Woken(old[u]) /\ Waiters(old[u]) > 0)
    /\ [][\A u \in Units :
            /\ (pc[u] = "L_spinCAS" /\ pc'[u] # "L_spinCAS") =>
                    /\ pc'[u] = "L_read"
                    /\ iter'[u] = iter[u] + 1
                    /\ IF state = old[u]
                       THEN /\ state' = state + mutexWoken
                            /\ Locked(state') /\ Woken(state')
                            /\ Waiters(state') = Waiters(state)
                            /\ awoke'[u]
                       ELSE state' = state /\ ~awoke'[u]
            /\ (pc[u] = "L_read" /\ (pc'[u] # "L_read" \/ iter'[u] # iter[u]))
                    => state' = state]_vars

\* a spinner has set the woken bit on a locked mutex with a parked waiter
SpinnerSetsWokenOnlyWitness ==
    \E u \in Units :
        /\ SpinnerHoldsWoken(u)
        /\ Locked(state) /\ Woken(state)
        /\ Waiters(state) = 1

(* ---------------- C16 ---------------- *)
WokenBit == IF Woken(state) THEN 1 ELSE 0

Releasing == {c \in Units : pc[c] = "U_rel"}

\* C16 as claimed: the woken bit equals the number of units in Lock with
\* awoke = true, plus sema, plus the Unlock calls between their
\* wake-claiming CAS and their release.
WakeTokensByAwoke ==
    WokenBit = Cardinality({u \in Units : pc[u] \in LockPcs /\ awoke[u]})
               + sema + Cardinality(Releasing)

\* C16, amended: the woken bit equals the number of wakes outstanding,
\* where a wake is a unit in Lock with awoke = true that is not parked in
\* Semacquire (a parked unit keeps awoke = true after the CAS that used up
\* its wake), a pending semaphore credit, or an Unlock between its
\* wake-claiming CAS and its release; so at most one exists and sema <= 1.
SingleWakeToken ==
    /\ WokenBit = Cardinality({u \in Units : Racing(u)})
                  + sema + Cardinality(Releasing)
    /\ sema <= 1

\* the one wake is a pending credit while the mutex is locked again
SingleWakeTokenWitness ==
    /\ sema = 1
    /\ Woken(state)
    /\ Locked(state)
    /\ \E u \in Units : pc[u] = "L_sema" /\ awoke[u]

(* ---------------- C17 ---------------- *)
\* C17: waiter accounting.  Under correct use the waiter count in m.state
\* equals the number of units that have done the waiter-adding CAS and not
\* yet returned from Semacquire, less the wakes granted and not yet
\* consumed: the semaphore credits and the Unlock calls between their
\* wake-claiming CAS and their release.
WaiterAccounting ==
    Waiters(state) = Cardinality(Parked) - (sema + Cardinality(Releasing))

\* two units are parked and one of them has a credit waiting
WaiterAccountingWitness ==
    /\ Cardinality(Parked) = 2
    /\ sema = 1
    /\ Waiters(state) = 1

(* ---------------- C18 ---------------- *)
\* units inside Unlock between the subtraction and the return that have
\* not claimed a wake
Deciding == {c \in Units : pc[c] \in {"U_cas", "U_reread"}}

\* C18: no orphaned waiters.  Under correct use, whenever m.state is
\* unlocked, not woken and has waiters, some unit is inside Unlock after
\* its subtraction and has not returned; so there is no such state in which
\* every unit is idle or parked.
NoOrphanedWaiters ==
    (~Locked(state) /\ ~Woken(state) /\ Waiters(state) > 0) => Deciding # {}

\* the mutex is free with two waiters and no wake pending, and an Unlock
\* is about to claim the wake
NoOrphanedWaitersWitness ==
    /\ ~Locked(state) /\ ~Woken(state)
    /\ Waiters(state) = 2
    /\ \E c \in Units : pc[c] = "U_cas" /\ old[c] = state

(* ---------------- C19 ---------------- *)
Quiescent == \A u \in Units : pc[u] = "idle"

\* C19: quiescent state.  Under correct use, when no unit is inside Lock
\* or Unlock, m.state is exactly mutexLocked if some unit holds the mutex
\* and 0 otherwise, and sema = 0.
QuiescentState ==
    Quiescent =>
        /\ state = (IF Holders # {} THEN mutexLocked ELSE 0)
        /\ sema = 0

\* every unit has used the mutex, nobody is inside a call, and the holder
\* got the mutex after being woken from the semaphore
QuiescentStateWitness ==
    /\ Quiescent
    /\ touched = Units
    /\ \E u \in Units : holds[u] /\ wake[u] # "none"

(* ---------------- C20 ---------------- *)
\* Every unit that has used the mutex has made one call; c's was an Unlock
\* that panicked and the others' were Lock.  (An Unlock panics only on a
\* clear locked bit, so c's came before every Lock: it found a fresh mutex.)
FailedFirst(c) ==
    /\ err[c] = UnlockedMsg
    /\ pc[c] = "idle"
    /\ budget = MaxCalls - Cardinality(touched)
    /\ \A u \in touched \ {c} :
            pc[u] \in LockPcs \/ holds[u] \/ err[u] = InconsistentMsg

\* C20 as claimed: once an Unlock has panicked on the fresh mutex (here:
\* every unit has made one call, and c's was the Unlock that panicked), no
\* Lock called afterwards acquires.
FailedUnlockBlocksLock ==
    \A c \in Units :
        (/\ err[c] = UnlockedMsg
         /\ pc[c] = "idle"
         /\ budget = MaxCalls - Cardinality(touched)) => Holders = {}

\* C20, amended: a failed Unlock is not state-preserving.  The Unlock that panics
\* leaves m.state one lower than it found it; from the fresh mutex that is
\* -1, with the locked bit set and a negative waiter field.  As long as
\* only Lock calls follow, none takes the fast path and none acquires: each
\* caller stays inside Lock, m.state keeps the locked bit and is -1 plus
\* one waiter for each unit parked, and no credit ever arrives.
FailedUnlockLeavesState ==
    /\ [][\A c \in Units :
            ((\E h \in Units : UnlockSub(c, h)) /\ err'[c] = UnlockedMsg) =>
                /\ state' = state - mutexLocked
                /\ (state = 0) =>
                        (state' = 0 - 1 /\ Locked(state')
                         /\ Waiters(state') < 0)]_vars
    /\ [](\A c \in Units :
            FailedFirst(c) =>
                /\ state = Cardinality(Parked) * OneWaiter - 1
                /\ Locked(state)
                /\ sema = 0
                /\ Holders = {}
                /\ \A u \in touched \ {c} :
                        pc[u] \in LockPcs /\ err[u] = "none")

\* after the Unlock that panicked on the fresh mutex, two units have called
\* Lock and are parked
FailedUnlockLeavesStateWitness ==
    \E c \in Units :
        /\ FailedFirst(c)
        /\ Cardinality(Parked) = 2
        /\ state = 2 * OneWaiter - 1

====
